---- MODULE Spec2Model ----
(***************************************************************************)
(* Model of utils/report_utils.py: get_api_auth_token (token caching in    *)
(* Airflow Variables), query_order_api (paginated order search) and        *)
(* generate_pdf_report (the PDF document built from the results).          *)
(*                                                                         *)
(* Time is a discrete clock `now`.  Local computation is instantaneous at  *)
(* the clock's granularity: the clock advances only while every execution  *)
(* is idle or blocked in an HTTP call.  Executions (Procs) share the       *)
(* Variables api_token and api_token_expiry; each Variable.get and each    *)
(* Variable.set is one atomic step.  The configuration Variables           *)
(* (order_api_base_url, api_client_id, api_client_secret) are set.         *)
(*                                                                         *)
(* Spec is one execution making calls one after another; SpecConc is       *)
(* several executions of get_api_auth_token interleaved freely; SpecPaged  *)
(* is queries against a search endpoint that serves a fixed list page by   *)
(* page; SpecRender is calls of generate_pdf_report, whose document is     *)
(* modelled as the list of flowables handed to doc.build.                  *)
(***************************************************************************)
EXTENDS Integers, Sequences, FiniteSets, TLC

\* ------------------------------------------------------------- bounds
MaxTime == 3        \* the clock runs 0..MaxTime
MaxTokens == 3      \* the auth endpoint issues at most this many tokens
MaxPage == 2        \* the search endpoint serves pages 0..MaxPage
MaxOrders == 301    \* a search endpoint with a fixed list holds at most this many records
MaxRenders == 2     \* generate_pdf_report is called at most this many times

\* -------------------------------------------------- program constants
DefaultExpiresIn == 3600   \* auth_data.get("expires_in", 3600)
Size == 100                \* payload["Size"]
DefaultTotalCount == 0     \* result_data.get("totalCount", 0)

Procs == {"e1", "e2"}      \* executions sharing the Variables

\* ------------------------------------------------------ Python values
None == <<>>

\* dict.get(key, default)
Get(d, k, default) == IF k \in DOMAIN d THEN d[k] ELSE default

\* Python truthiness of an Optional value (None is falsy)
Truthy(v) == v # None

\* datetime.isoformat() / datetime.fromisoformat(): a datetime is stored in
\* a Variable as its ISO string, and read back by parsing it
isoformat(t) == <<"iso", t>>
fromisoformat(s) == s[2]

\* list.extend
\* (faulty variant: the list is replaced by the new items)
ExtendReplaces(l, items) == items

Extend(l, items) == l \o items

\* -------------------------------------------------------- environment
\* an access token issued by the auth endpoint: a serial number and the
\* instant up to which (exclusive) the token is valid
AccessToken(n, exp) == [id |-> n, exp |-> exp]

ExpiresInChoices == {1, 2}
ErrorStatuses == {401, 500}

\* bodies the auth endpoint sends with status 200: {access_token, expires_in?}
AuthBodies(n, t) ==
    {[access_token |-> AccessToken(n, t + e), expires_in |-> e] : e \in ExpiresInChoices}
    \cup {[access_token |-> AccessToken(n, t + DefaultExpiresIn)]}

\* the records of page k of a search response holding n records
PageData(k, n) == [i \in 1..n |-> k * Size + i]

DataLens == {0, Size - 1, Size}
TotalCounts == {0, Size + 1, (MaxPage + 2) * Size}

\* bodies the search endpoint sends with status 200: {data?, totalCount?}
SearchBodies(k) ==
    {[data |-> PageData(k, n), totalCount |-> tc] : n \in DataLens, tc \in TotalCounts}
    \cup {[data |-> PageData(k, n)] : n \in DataLens}
    \cup {[totalCount |-> 0]}

NoResponse == [kind |-> "none"]
HttpResponse(status, body) == [kind |-> "response", status_code |-> status, json |-> body]
TransportError == [kind |-> "exception"]

\* the call returned a response (did not raise) and response.status_code == 200
Is200(r) == r.kind = "response" /\ r.status_code = 200

NoResult == [kind |-> "none"]

VARIABLES
    now,               \* datetime.now()
    api_token,         \* Variable "api_token"
    api_token_expiry,  \* Variable "api_token_expiry"
    issued,            \* number of tokens the auth endpoint has issued
    pc,                \* where each execution stands
    op,                \* the function each execution was called for
    token,             \* local `token`
    token_expiry,      \* local `token_expiry`
    new_token,         \* local `new_token`
    expiry_time,       \* local `expiry_time`
    response,          \* the response of the HTTP call in flight
    headers,           \* the bearer token of local `headers`
    page,              \* local `page`
    all_results,       \* local `all_results`
    result,            \* outcome of the last finished call
    entry,             \* the Variables as they were when the call started
    authCalls,         \* auth requests sent by the call in progress
    granted,           \* the 200 body the auth endpoint sent to the call, if any
    reqs,              \* search requests sent by the call in progress
    served,            \* 200 bodies received by the call in progress
    report_config,     \* argument `report_config` of query_order_api
    payload,           \* local `payload` of query_order_api
    orders,            \* how many records the search endpoint holds, if that is fixed
    files,             \* the file system: path |-> document written there
    rendered,          \* the last generate_pdf_report call: arguments and what it did
    renders            \* how many generate_pdf_report calls were made

vars == <<now, api_token, api_token_expiry, issued, pc, op, token, token_expiry,
          new_token, expiry_time, response, headers, page, all_results, result,
          entry, authCalls, granted, reqs, served, report_config, payload,
          orders, files, rendered, renders>>

\* what no step of get_api_auth_token or query_order_api touches
outside == <<orders, files, rendered, renders>>

\* every variable but `orders`
Start ==
    /\ now = 0
    /\ api_token = None
    /\ api_token_expiry = None
    /\ issued = 0
    /\ pc = [p \in Procs |-> "idle"]
    /\ op = [p \in Procs |-> "none"]
    /\ token = [p \in Procs |-> None]
    /\ token_expiry = [p \in Procs |-> None]
    /\ new_token = [p \in Procs |-> None]
    /\ expiry_time = [p \in Procs |-> None]
    /\ response = [p \in Procs |-> NoResponse]
    /\ headers = [p \in Procs |-> None]
    /\ page = [p \in Procs |-> 0]
    /\ all_results = [p \in Procs |-> <<>>]
    /\ result = [p \in Procs |-> NoResult]
    /\ entry = [p \in Procs |-> [at |-> 0, api_token |-> None, api_token_expiry |-> None]]
    /\ authCalls = [p \in Procs |-> 0]
    /\ granted = [p \in Procs |-> None]
    /\ reqs = [p \in Procs |-> <<>>]
    /\ served = [p \in Procs |-> <<>>]
    /\ report_config = [p \in Procs |-> None]
    /\ payload = [p \in Procs |-> None]
    /\ files = <<>>
    /\ rendered = None
    /\ renders = 0

\* nothing is fixed about what the search endpoint holds
Init == Start /\ orders = None

\* the search endpoint holds a list of 0..MaxOrders records
InitPaged == Start /\ orders \in 0..MaxOrders

\* ------------------------------------------------------------- clock
\* executions that are neither idle nor blocked in an HTTP call
Computing == {p \in Procs : pc[p] \notin {"idle", "auth_wait", "search_wait"}}

Tick ==
    /\ now < MaxTime
    /\ Computing = {}
    /\ now' = now + 1
    /\ UNCHANGED <<api_token, api_token_expiry, issued, pc, op, token, token_expiry,
                   new_token, expiry_time, response, headers, page, all_results,
                   result, entry, authCalls, granted, reqs, served, report_config,
                   payload, outside>>

\* ------------------------------------------------ the search payload
\* report configurations a query is called with
QueryConfigs ==
    { None,
      [report_fields |-> <<"OrderId", "OrderTotal">>,
       query_parameters |-> [order_type |-> "RETAIL"]],
      [query_parameters |-> [view_name |-> "orderlines", sort_field |-> "OrderId"]] }

\* the filter on the order date, for the arguments from_date and to_date
DateFilter(view_name) ==
    [ViewName |-> view_name, AttributeId |-> "OrderDate", DataType |-> None,
     requiredFilter |-> FALSE,
     FilterValues |-> <<[date |-> [from |-> "from_date", to |-> "to_date"],
                         quickSelect |-> "CUSTOM"]>>,
     negativeFilter |-> FALSE]

\* the filter appended for query_parameters.order_type
TextSearchFilter(view_name, order_type) ==
    [ViewName |-> view_name, AttributeId |-> "TextSearch", DataType |-> "text",
     requiredFilter |-> FALSE, FilterValues |-> <<order_type>>,
     negativeFilter |-> FALSE]

\* d.get(k) is a non-empty string (None and "" are falsy)
HasText(d, k) == k \in DOMAIN d /\ d[k] # ""

\* the default search payload with the overrides of the configuration
BuildPayload(config) ==
    LET params == IF Truthy(config) THEN Get(config, "query_parameters", <<>>) ELSE <<>>
        ViewName == IF HasText(params, "view_name")
                    THEN params["view_name"] ELSE "orderdetails"
    IN  [ViewName |-> ViewName,
         Filters |-> IF HasText(params, "order_type")
                     THEN <<DateFilter(ViewName),
                            TextSearchFilter(ViewName, params["order_type"])>>
                     ELSE <<DateFilter(ViewName)>>,
         RequestAttributeIds |-> IF Truthy(config)
                                 THEN Get(config, "report_fields", <<>>)
                                 ELSE <<>>,
         Sort |-> IF HasText(params, "sort_field")
                  THEN params["sort_field"] ELSE "OrderDate",
         SearchOptions |-> <<>>,
         SearchChains |-> <<>>,
         FilterExpression |-> None,
         Page |-> 0,
         TotalCount |-> -1,
         SortOrder |-> "desc",
         EnableMaxCountLimit |-> TRUE,
         MaxCountLimit |-> 1000,
         Size |-> Size]

\* ------------------------------------------------- calls and returns
\* a call starts: fresh locals, and the ghost record of the call
Begin(p, f, config) ==
    /\ op' = [op EXCEPT ![p] = f]
    /\ report_config' = [report_config EXCEPT ![p] = config]
    /\ pc' = [pc EXCEPT ![p] = "get_token"]
    /\ UNCHANGED <<token, token_expiry, new_token, expiry_time, response, headers,
                   page, all_results, payload>>
    /\ result' = [result EXCEPT ![p] = NoResult]
    /\ entry' = [entry EXCEPT ![p] = [at |-> now, api_token |-> api_token,
                                      api_token_expiry |-> api_token_expiry]]
    /\ authCalls' = [authCalls EXCEPT ![p] = 0]
    /\ granted' = [granted EXCEPT ![p] = None]
    /\ reqs' = [reqs EXCEPT ![p] = <<>>]
    /\ served' = [served EXCEPT ![p] = <<>>]
    /\ UNCHANGED <<now, outside, api_token, api_token_expiry, issued>>

\* the outcome of a finished call: what it returned or that it raised, when,
\* and the Variables as the call left them
Outcome(kind, value, tok, exp) ==
    [kind |-> kind, value |-> value, at |-> now, api_token |-> tok,
     api_token_expiry |-> exp]

\* the locals of a function are gone once it has returned or raised
TokenLocalsDie(p) ==
    /\ token' = [token EXCEPT ![p] = None]
    /\ token_expiry' = [token_expiry EXCEPT ![p] = None]
    /\ new_token' = [new_token EXCEPT ![p] = None]
    /\ expiry_time' = [expiry_time EXCEPT ![p] = None]
    /\ response' = [response EXCEPT ![p] = NoResponse]

QueryLocalsDie(p) ==
    /\ report_config' = [report_config EXCEPT ![p] = None]
    /\ payload' = [payload EXCEPT ![p] = None]
    /\ headers' = [headers EXCEPT ![p] = None]
    /\ page' = [page EXCEPT ![p] = 0]
    /\ all_results' = [all_results EXCEPT ![p] = <<>>]

\* an exception leaves the called function (query_order_api lets the
\* exceptions of get_api_auth_token through: line 87 is outside its try)
Raise(p, what) ==
    /\ pc' = [pc EXCEPT ![p] = "idle"]
    /\ result' = [result EXCEPT ![p] = Outcome("error", what, api_token, api_token_expiry)]
    /\ TokenLocalsDie(p)
    /\ QueryLocalsDie(p)

\* get_api_auth_token returns t, the Variables being tok and exp: to the
\* caller of get_api_auth_token, or into `token` of query_order_api
ReturnToken(p, t, tok, exp) ==
    /\ TokenLocalsDie(p)
    /\ IF op[p] = "get_api_auth_token"
       THEN /\ pc' = [pc EXCEPT ![p] = "idle"]
            /\ result' = [result EXCEPT ![p] = Outcome("token", t, tok, exp)]
            /\ UNCHANGED <<headers, payload>>
       ELSE /\ pc' = [pc EXCEPT ![p] = "search_send"]
            /\ payload' = [payload EXCEPT ![p] = BuildPayload(report_config[p])]
            /\ headers' = [headers EXCEPT ![p] = t]
            /\ UNCHANGED result

\* ------------------------------------------------ get_api_auth_token
CallGetToken(p) ==
    /\ pc[p] = "idle"
    /\ Begin(p, "get_api_auth_token", None)

\* token = Variable.get("api_token", default_var=None)
GetTokenVar(p) ==
    /\ pc[p] = "get_token"
    /\ token' = [token EXCEPT ![p] = api_token]
    /\ pc' = [pc EXCEPT ![p] = "get_expiry"]
    /\ UNCHANGED <<now, outside, api_token, api_token_expiry, issued, op, token_expiry,
                   new_token, expiry_time, response, headers, report_config, payload, page, all_results,
                   result, entry, authCalls, granted, reqs, served>>

\* token_expiry = Variable.get("api_token_expiry", default_var=None)
GetExpiryVar(p) ==
    /\ pc[p] = "get_expiry"
    /\ token_expiry' = [token_expiry EXCEPT ![p] = api_token_expiry]
    /\ pc' = [pc EXCEPT ![p] = "check"]
    /\ UNCHANGED <<now, outside, api_token, api_token_expiry, issued, op, token,
                   new_token, expiry_time, response, headers, report_config, payload, page, all_results,
                   result, entry, authCalls, granted, reqs, served>>

\* if token and token_expiry: ... if datetime.now() < expiry_time
\* (faulty variant: the comparison turned round)
IsCachedTokenValidInverted(tok, exp, t) ==
    /\ Truthy(tok)
    /\ Truthy(exp)
    /\ t > fromisoformat(exp)

IsCachedTokenValid(tok, exp, t) ==
    /\ Truthy(tok)
    /\ Truthy(exp)
    /\ t < fromisoformat(exp)

\* return token  (the cached one)
UseExistingToken(p) ==
    /\ pc[p] = "check"
    /\ IsCachedTokenValid(token[p], token_expiry[p], now)
    /\ ReturnToken(p, token[p], api_token, api_token_expiry)
    /\ UNCHANGED <<now, outside, api_token, api_token_expiry, issued, op, report_config, page, all_results,
                   entry, authCalls, granted, reqs, served>>

\* response = requests.post(auth_endpoint, json=auth_payload)
PostAuth(p) ==
    /\ pc[p] = "check"
    /\ ~IsCachedTokenValid(token[p], token_expiry[p], now)
    /\ authCalls' = [authCalls EXCEPT ![p] = @ + 1]
    /\ pc' = [pc EXCEPT ![p] = "auth_wait"]
    /\ UNCHANGED <<now, outside, api_token, api_token_expiry, issued, op, token, token_expiry,
                   new_token, expiry_time, response, headers, report_config, payload, page, all_results,
                   result, entry, granted, reqs, served>>

\* the auth endpoint answers 200 with a new token
AuthOk(p) ==
    /\ pc[p] = "auth_wait"
    /\ issued < MaxTokens
    /\ \E body \in AuthBodies(issued + 1, now) :
           response' = [response EXCEPT ![p] = HttpResponse(200, body)]
    /\ issued' = issued + 1
    /\ pc' = [pc EXCEPT ![p] = "auth_response"]
    /\ UNCHANGED <<now, outside, api_token, api_token_expiry, op, token, token_expiry,
                   new_token, expiry_time, headers, report_config, payload, page, all_results, result,
                   entry, authCalls, granted, reqs, served>>

\* the auth endpoint answers with another status
AuthRejected(p) ==
    /\ pc[p] = "auth_wait"
    /\ \E s \in ErrorStatuses :
           response' = [response EXCEPT ![p] = HttpResponse(s, None)]
    /\ pc' = [pc EXCEPT ![p] = "auth_response"]
    /\ UNCHANGED <<now, outside, api_token, api_token_expiry, issued, op, token, token_expiry,
                   new_token, expiry_time, headers, report_config, payload, page, all_results, result,
                   entry, authCalls, granted, reqs, served>>

\* requests.post raises (connection error, timeout)
AuthTransportError(p) ==
    /\ pc[p] = "auth_wait"
    /\ response' = [response EXCEPT ![p] = TransportError]
    /\ pc' = [pc EXCEPT ![p] = "auth_response"]
    /\ UNCHANGED <<now, outside, api_token, api_token_expiry, issued, op, token, token_expiry,
                   new_token, expiry_time, headers, report_config, payload, page, all_results, result,
                   entry, authCalls, granted, reqs, served>>

\* expires_in = auth_data.get("expires_in", 3600)
\* expiry_time = datetime.now() + timedelta(seconds=expires_in)
\* (faulty variant: the lifetime the endpoint sent is ignored)
ExpiryTimeIgnoresExpiresIn(t, auth_data) == t + DefaultExpiresIn

ExpiryTime(t, auth_data) == t + Get(auth_data, "expires_in", DefaultExpiresIn)

\* if response.status_code == 200: new_token = auth_data["access_token"] ...
AcceptToken(p) ==
    /\ pc[p] = "auth_response"
    /\ Is200(response[p])
    /\ new_token' = [new_token EXCEPT ![p] = response[p].json["access_token"]]
    /\ expiry_time' = [expiry_time EXCEPT ![p] = ExpiryTime(now, response[p].json)]
    /\ granted' = [granted EXCEPT ![p] = response[p].json]
    /\ pc' = [pc EXCEPT ![p] = "set_token"]
    /\ UNCHANGED <<now, outside, api_token, api_token_expiry, issued, op, token, token_expiry,
                   response, headers, report_config, payload, page, all_results, result, entry, authCalls,
                   reqs, served>>

\* (faulty variant: a failed refresh falls back on the token read from the Variable)
AuthFailedFallsBack(p) ==
    /\ pc[p] = "auth_response"
    /\ ~Is200(response[p])
    /\ ReturnToken(p, token[p], api_token, api_token_expiry)
    /\ UNCHANGED <<now, outside, api_token, api_token_expiry, issued, op, report_config, page, all_results,
                   entry, authCalls, granted, reqs, served>>

\* else: raise Exception("Authentication failed"); except Exception: raise
AuthFailed(p) ==
    /\ pc[p] = "auth_response"
    /\ ~Is200(response[p])
    /\ Raise(p, "Authentication failed")
    /\ UNCHANGED <<now, outside, api_token, api_token_expiry, issued, op, entry, authCalls,
                   granted, reqs, served>>

\* Variable.set("api_token", new_token)
SetTokenVar(p) ==
    /\ pc[p] = "set_token"
    /\ api_token' = new_token[p]
    /\ pc' = [pc EXCEPT ![p] = "set_expiry"]
    /\ UNCHANGED <<now, outside, api_token_expiry, issued, op, token, token_expiry,
                   new_token, expiry_time, response, headers, report_config, payload, page, all_results,
                   result, entry, authCalls, granted, reqs, served>>

\* Variable.set("api_token_expiry", expiry_time.isoformat()); return new_token
SetExpiryVar(p) ==
    /\ pc[p] = "set_expiry"
    /\ api_token_expiry' = isoformat(expiry_time[p])
    /\ ReturnToken(p, new_token[p], api_token, api_token_expiry')
    /\ UNCHANGED <<now, outside, api_token, issued, op, report_config, page, all_results, entry, authCalls,
                   granted, reqs, served>>

\* ---------------------------------------------------- query_order_api
\* token = get_api_auth_token() is the first thing the query does that the
\* model follows; the payload and headers are built once it has returned
CallQuery(p) ==
    /\ pc[p] = "idle"
    /\ \E config \in QueryConfigs : Begin(p, "query_order_api", config)

\* a search request as the endpoint sees it
SearchRequest(body, bearer) ==
    [Page |-> body.Page, json |-> body, Authorization |-> bearer]

\* payload["Page"] = page; response = requests.post(search_endpoint, ...)
SendSearch(p) ==
    /\ pc[p] = "search_send"
    /\ payload' = [payload EXCEPT ![p].Page = page[p]]
    /\ reqs' = [reqs EXCEPT ![p] = Append(@, SearchRequest(payload'[p], headers[p]))]
    /\ pc' = [pc EXCEPT ![p] = "search_wait"]
    /\ UNCHANGED <<now, outside, api_token, api_token_expiry, issued, op, token, token_expiry,
                   new_token, expiry_time, response, headers, report_config, page, all_results,
                   result, entry, authCalls, granted, served>>

\* the search endpoint answers 200; its data ends on page MaxPage at the
\* latest: that page is not full, and the pages after it are empty
SearchOk(p) ==
    /\ pc[p] = "search_wait"
    /\ \E body \in SearchBodies(page[p]) :
           /\ page[p] >= MaxPage => Len(Get(body, "data", <<>>)) < Size
           /\ page[p] > MaxPage => Len(Get(body, "data", <<>>)) = 0
           /\ response' = [response EXCEPT ![p] = HttpResponse(200, body)]
    /\ pc' = [pc EXCEPT ![p] = "search_response"]
    /\ UNCHANGED <<now, outside, api_token, api_token_expiry, issued, op, token, token_expiry,
                   new_token, expiry_time, headers, report_config, payload, page, all_results, result,
                   entry, authCalls, granted, reqs, served>>

\* the body a search endpoint holding records 1..n sends for page k: the
\* records k*Size+1 .. k*Size+Size that exist, and totalCount = n
PagedBody(n, k) ==
    LET left == n - k * Size
        len == IF left <= 0 THEN 0 ELSE IF left < Size THEN left ELSE Size
    IN  [data |-> PageData(k, len), totalCount |-> n]

\* the search endpoint with a fixed list answers the request it was sent
SearchOkPaged(p) ==
    /\ pc[p] = "search_wait"
    /\ response' = [response EXCEPT ![p] =
                        HttpResponse(200, PagedBody(orders, reqs[p][Len(reqs[p])].Page))]
    /\ pc' = [pc EXCEPT ![p] = "search_response"]
    /\ UNCHANGED <<now, outside, api_token, api_token_expiry, issued, op, token, token_expiry,
                   new_token, expiry_time, headers, report_config, payload, page,
                   all_results, result, entry, authCalls, granted, reqs, served>>

\* the search endpoint answers with another status
SearchRejected(p) ==
    /\ pc[p] = "search_wait"
    /\ \E s \in ErrorStatuses :
           response' = [response EXCEPT ![p] = HttpResponse(s, None)]
    /\ pc' = [pc EXCEPT ![p] = "search_response"]
    /\ UNCHANGED <<now, outside, api_token, api_token_expiry, issued, op, token, token_expiry,
                   new_token, expiry_time, headers, report_config, payload, page, all_results, result,
                   entry, authCalls, granted, reqs, served>>

\* requests.post raises (connection error, timeout)
SearchTransportError(p) ==
    /\ pc[p] = "search_wait"
    /\ response' = [response EXCEPT ![p] = TransportError]
    /\ pc' = [pc EXCEPT ![p] = "search_response"]
    /\ UNCHANGED <<now, outside, api_token, api_token_expiry, issued, op, token, token_expiry,
                   new_token, expiry_time, headers, report_config, payload, page, all_results, result,
                   entry, authCalls, granted, reqs, served>>

\* return all_results
ReturnResults(p, results) ==
    /\ pc' = [pc EXCEPT ![p] = "idle"]
    /\ result' = [result EXCEPT ![p] =
                      Outcome("results", results, api_token, api_token_expiry)]
    /\ TokenLocalsDie(p)
    /\ QueryLocalsDie(p)

\* (faulty variant: a failed page ends the query with the pages fetched so far)
SearchFailedReturnsPartial(p) ==
    /\ pc[p] = "search_response"
    /\ ~Is200(response[p])
    /\ ReturnResults(p, all_results[p])
    /\ UNCHANGED <<now, outside, api_token, api_token_expiry, issued, op, entry, authCalls,
                   granted, reqs, served>>

\* if response.status_code != 200: raise Exception(...); except: raise
SearchFailed(p) ==
    /\ pc[p] = "search_response"
    /\ ~Is200(response[p])
    /\ Raise(p, "API returned error")
    /\ UNCHANGED <<now, outside, api_token, api_token_expiry, issued, op, entry, authCalls,
                   granted, reqs, served>>

\* if not result_data.get("data") or len(result_data["data"]) == 0
\* (a missing list, None, and the empty list are all falsy)
IsEmptyPage(result_data) ==
    IF ~Truthy(Get(result_data, "data", None))
    THEN TRUE
    ELSE Len(result_data["data"]) = 0

\* (faulty variant: only the count ends the loop)
ReachedEndCountOnly(results, result_data) ==
    Len(results) >= Get(result_data, "totalCount", DefaultTotalCount)

\* (faulty variant: only a short page ends the loop)
ReachedEndShortOnly(results, result_data) ==
    Len(result_data["data"]) < Size

\* if len(all_results) >= result_data.get("totalCount", 0)
\*    or len(result_data["data"]) < payload["Size"]
ReachedEnd(results, result_data) ==
    IF Len(results) >= Get(result_data, "totalCount", DefaultTotalCount)
    THEN TRUE
    ELSE Len(result_data["data"]) < Size

\* (faulty variant: an empty page makes the query return an empty list)
NoMoreResultsDropsAll(p) ==
    /\ pc[p] = "search_response"
    /\ Is200(response[p])
    /\ IsEmptyPage(response[p].json)
    /\ served' = [served EXCEPT ![p] = Append(@, response[p].json)]
    /\ ReturnResults(p, <<>>)
    /\ UNCHANGED <<now, outside, api_token, api_token_expiry, issued, op, entry, authCalls, granted, reqs>>

\* the page is empty: break, return all_results
NoMoreResults(p) ==
    /\ pc[p] = "search_response"
    /\ Is200(response[p])
    /\ IsEmptyPage(response[p].json)
    /\ served' = [served EXCEPT ![p] = Append(@, response[p].json)]
    /\ ReturnResults(p, all_results[p])
    /\ UNCHANGED <<now, outside, api_token, api_token_expiry, issued, op, entry, authCalls, granted, reqs>>

\* all_results.extend(result_data["data"]); the end is reached: break
LastPage(p) ==
    /\ pc[p] = "search_response"
    /\ Is200(response[p])
    /\ ~IsEmptyPage(response[p].json)
    /\ LET extended == Extend(all_results[p], response[p].json["data"])
       IN  /\ ReachedEnd(extended, response[p].json)
           /\ ReturnResults(p, extended)
    /\ served' = [served EXCEPT ![p] = Append(@, response[p].json)]
    /\ UNCHANGED <<now, outside, api_token, api_token_expiry, issued, op, entry, authCalls, granted, reqs>>

\* (faulty variant: the page index is not advanced)
NextPageRefetches(p) ==
    /\ pc[p] = "search_response"
    /\ Is200(response[p])
    /\ ~IsEmptyPage(response[p].json)
    /\ LET extended == Extend(all_results[p], response[p].json["data"])
       IN  /\ ~ReachedEnd(extended, response[p].json)
           /\ all_results' = [all_results EXCEPT ![p] = extended]
    /\ served' = [served EXCEPT ![p] = Append(@, response[p].json)]
    /\ pc' = [pc EXCEPT ![p] = "search_send"]
    /\ UNCHANGED <<now, outside, api_token, api_token_expiry, issued, op, token, token_expiry,
                   new_token, expiry_time, response, headers, report_config, payload,
                   page, result, entry, authCalls, granted, reqs>>

\* (faulty variant: the token is acquired again before every further page)
NextPageReacquiresToken(p) ==
    /\ pc[p] = "search_response"
    /\ Is200(response[p])
    /\ ~IsEmptyPage(response[p].json)
    /\ LET extended == Extend(all_results[p], response[p].json["data"])
       IN  /\ ~ReachedEnd(extended, response[p].json)
           /\ all_results' = [all_results EXCEPT ![p] = extended]
    /\ served' = [served EXCEPT ![p] = Append(@, response[p].json)]
    /\ page' = [page EXCEPT ![p] = @ + 1]
    /\ pc' = [pc EXCEPT ![p] = "get_token"]
    /\ UNCHANGED <<now, outside, api_token, api_token_expiry, issued, op, token, token_expiry,
                   new_token, expiry_time, response, headers, report_config, payload, result,
                   entry, authCalls, granted, reqs>>

\* all_results.extend(result_data["data"]); page += 1
NextPage(p) ==
    /\ pc[p] = "search_response"
    /\ Is200(response[p])
    /\ ~IsEmptyPage(response[p].json)
    /\ LET extended == Extend(all_results[p], response[p].json["data"])
       IN  /\ ~ReachedEnd(extended, response[p].json)
           /\ all_results' = [all_results EXCEPT ![p] = extended]
    /\ served' = [served EXCEPT ![p] = Append(@, response[p].json)]
    /\ page' = [page EXCEPT ![p] = @ + 1]
    /\ pc' = [pc EXCEPT ![p] = "search_send"]
    /\ UNCHANGED <<now, outside, api_token, api_token_expiry, issued, op, token, token_expiry,
                   new_token, expiry_time, response, headers, report_config, payload, result,
                   entry, authCalls, granted, reqs>>

\* ------------------------------------------------- generate_pdf_report
\* Values of a result record carry their Python type; NaN is what pandas
\* puts where a record lacks a column.
Str(s) == [type |-> "str", v |-> s]
Num(n) == [type |-> "int", v |-> n]
NaN == [type |-> "float", v |-> "nan"]

\* A result record is a dict, whose keys keep their order: a sequence of
\* <<key, value>> pairs.
Keys(rec) == [i \in 1..Len(rec) |-> rec[i][1]]
HasKey(rec, k) == \E i \in 1..Len(rec) : rec[i][1] = k
Value(rec, k) == rec[CHOOSE i \in 1..Len(rec) : rec[i][1] = k][2]

Elems(seq) == {seq[i] : i \in 1..Len(seq)}

\* a datetime, to the second; strftime with a format of year, month and day
\* gives its calendar day written in that format
datetime(t) == <<"datetime", t>>
strftime(d, format) == <<format, d[2] \div 86400>>

\* f"/tmp/{report_id}_{execution_date.strftime('%Y%m%d')}.pdf"
\* (faulty variant: the name carries the whole datetime)
PdfFileWithTime(config, execution_date) ==
    LET report_id == IF Truthy(config)
                     THEN Get(config, "report_id", "report")
                     ELSE "report"
    IN  <<"/tmp/", report_id, "_", execution_date, ".pdf">>

PdfFile(config, execution_date) ==
    LET report_id == IF Truthy(config)
                     THEN Get(config, "report_id", "report")
                     ELSE "report"
    IN  <<"/tmp/", report_id, "_", strftime(execution_date, "%Y%m%d"), ".pdf">>

\* reportlab flowables
Paragraph(text, style) == [kind |-> "Paragraph", text |-> text, style |-> style]
Spacer(width, height) == [kind |-> "Spacer", width |-> width, height |-> height]
Image(chart) == [kind |-> "Image", chart |-> chart]
Table(data, colWidths, repeatRows, shaded) ==
    [kind |-> "Table", data |-> data, colWidths |-> colWidths,
     repeatRows |-> repeatRows, shaded |-> shaded]

\* Paragraph(f"{report_title} - {execution_date.strftime('%Y-%m-%d')}", Title)
TitleLine(report_title, execution_date) ==
    Paragraph(<<report_title, " - ", strftime(execution_date, "%Y-%m-%d")>>, "Title")

\* the elements of the document for an empty result list
\* (faulty variant: the section heading of the data table is kept)
NoRecordsElementsWithHeading(report_title, execution_date) ==
    << TitleLine(report_title, execution_date),
       Spacer(1, 12),
       Paragraph("No records found for the specified period.", "Normal"),
       Paragraph("Detailed Data", "Heading2") >>

NoRecordsElements(report_title, execution_date) ==
    << TitleLine(report_title, execution_date),
       Spacer(1, 12),
       Paragraph("No records found for the specified period.", "Normal") >>

\* pd.DataFrame(results): the columns are the keys of the records in the
\* order they first appear; a row has NaN where its record lacks a column
RECURSIVE AddColumns(_, _)
AddColumns(columns, keys) ==
    IF keys = <<>> THEN columns
    ELSE AddColumns(IF Head(keys) \in Elems(columns)
                    THEN columns ELSE Append(columns, Head(keys)),
                    Tail(keys))

RECURSIVE Columns(_)
Columns(results) ==
    IF results = <<>> THEN <<>>
    ELSE AddColumns(Columns(SubSeq(results, 1, Len(results) - 1)),
                    Keys(results[Len(results)]))

DataFrame(results) ==
    [columns |-> Columns(results),
     rows |-> [i \in 1..Len(results) |->
                  [c \in Elems(Columns(results)) |->
                      IF HasKey(results[i], c) THEN Value(results[i], c) ELSE NaN]]]

\* df[field]
Column(df, field) == [i \in 1..Len(df.rows) |-> df.rows[i][field]]

\* the dtype pandas gives a column: int64, float64 (numbers and NaN), or
\* object, of strings only ("str") or of strings mixed with numbers or NaN
ColumnKind(column) ==
    LET types == {column[i].type : i \in 1..Len(column)}
    IN  IF types = {"int"} THEN "int"
        ELSE IF types \subseteq {"int", "float"} THEN "float"
        ELSE IF types = {"str"} THEN "str"
        ELSE "mixed"

\* the statistic pandas computes over a column, as a term
Statistic(name, column) == <<name, column>>

\* value_str for one summary field: a sequence of one [label, value_str]
\* row, or no row when the field is skipped (its column is missing, the
\* operation is "group" or unknown, or the computation raises)
\* (faulty variant: an unknown operation yields a row)
SummaryRowKeepsUnknown(df, summary_field) ==
    LET field == summary_field.field
        operation == summary_field.operation
        label == summary_field.label
        column == Column(df, field)
        kind == ColumnKind(column)
        Row(format, value) == << <<label, <<format, value>> >> >>
    IN  IF field \notin Elems(df.columns) THEN <<>>
        ELSE IF operation = "sum" THEN
            IF kind = "mixed" THEN <<>>
            ELSE IF kind = "float" THEN Row(",.2f", Statistic("sum", column))
            ELSE Row("str", Statistic("sum", column))
        ELSE IF operation \in {"avg", "mean"} THEN
            IF kind \in {"int", "float"} THEN Row(",.2f", Statistic("mean", column))
            ELSE <<>>
        ELSE IF operation = "count" THEN Row(",", Len(df.rows))
        ELSE IF operation \in {"min", "max"} THEN
            IF kind = "mixed" THEN <<>>
            ELSE Row("str", Statistic(operation, column))
        ELSE IF operation = "group" THEN <<>>
        ELSE Row("str", Statistic(operation, column))

SummaryRow(df, summary_field) ==
    LET field == summary_field.field
        operation == summary_field.operation
        label == summary_field.label
        column == Column(df, field)
        kind == ColumnKind(column)
        Row(format, value) == << <<label, <<format, value>> >> >>
    IN  IF field \notin Elems(df.columns) THEN <<>>
        ELSE IF operation = "sum" THEN
            IF kind = "mixed" THEN <<>>
            ELSE IF kind = "float" THEN Row(",.2f", Statistic("sum", column))
            ELSE Row("str", Statistic("sum", column))
        ELSE IF operation \in {"avg", "mean"} THEN
            IF kind \in {"int", "float"} THEN Row(",.2f", Statistic("mean", column))
            ELSE <<>>
        ELSE IF operation = "count" THEN Row(",", Len(df.rows))
        ELSE IF operation \in {"min", "max"} THEN
            IF kind = "mixed" THEN <<>>
            ELSE Row("str", Statistic(operation, column))
        ELSE <<>>

\* summary_data after the loop over report_config["summary_fields"]
RECURSIVE SummaryData(_, _)
SummaryData(df, summary_fields) ==
    IF summary_fields = <<>> THEN <<>>
    ELSE SummaryRow(df, Head(summary_fields)) \o SummaryData(df, Tail(summary_fields))

\* the chart of one summary field: heading, spacer, image, spacer, for a
\* "group" field whose column exists
ChartElements(df, summary_field) ==
    IF /\ summary_field.operation = "group"
       /\ summary_field.field \in Elems(df.columns)
    THEN << Paragraph(summary_field.label, "Heading3"),
            Spacer(1, 6),
            Image(Statistic("value_counts", Column(df, summary_field.field))),
            Spacer(1, 12) >>
    ELSE <<>>

RECURSIVE Charts(_, _)
Charts(df, summary_fields) ==
    IF summary_fields = <<>> THEN <<>>
    ELSE ChartElements(df, Head(summary_fields)) \o Charts(df, Tail(summary_fields))

\* the summary section: its heading, the table if there are rows, the charts
SummarySection(df, config) ==
    IF Truthy(config) /\ "summary_fields" \in DOMAIN config
    THEN LET summary_data == SummaryData(df, config["summary_fields"])
         IN  << Paragraph("Summary", "Heading2") >>
             \o (IF summary_data # <<>>
                 THEN << Table(summary_data, <<300, 200>>, 0, {}), Spacer(1, 24) >>
                 ELSE <<>>)
             \o Charts(df, config["summary_fields"])
    ELSE <<>>

\* the description paragraph, if report_config.get("description") is truthy
DescriptionSection(config) ==
    IF Truthy(config) /\ HasText(config, "description")
    THEN << Paragraph(config["description"], "Normal"), Spacer(1, 12) >>
    ELSE <<>>

\* report_config["report_fields"], or the keys of the first result
ReportFields(results, config) ==
    IF Truthy(config) /\ "report_fields" \in DOMAIN config
    THEN config["report_fields"]
    ELSE Keys(results[1])

\* [field for field in report_fields if field in df.columns]
\* (faulty variant: the fields come in the order of the columns of the data)
TableFieldsInColumnOrder(report_fields, df) ==
    SelectSeq(df.columns, LAMBDA field : field \in Elems(report_fields))

TableFields(report_fields, df) ==
    SelectSeq(report_fields, LAMBDA field : field \in Elems(df.columns))

\* the text of one cell
FormatCell(value) ==
    IF value.type = "float" THEN <<",.2f", value.v>>
    ELSE IF value.type = "int" THEN <<",", value.v>>
    ELSE <<"str", value.v>>

\* header row, then one row per record with one cell per table field
TableData(df, table_fields) ==
    << table_fields >>
    \o [i \in 1..Len(df.rows) |->
           [j \in 1..Len(table_fields) |-> FormatCell(df.rows[i][table_fields[j]])]]

Max(a, b) == IF a >= b THEN a ELSE b
Min(a, b) == IF a <= b THEN a ELSE b

\* [max(100, min(200, 600 // len(table_fields)))] * len(table_fields),
\* for at least one field
ColWidths(n) == [j \in 1..n |-> Max(100, Min(200, 600 \div n))]

\* the rows 1..len(table_data)-1 that get the grey background
ShadedRows(table_data) == {i \in 1..(Len(table_data) - 1) : i % 2 = 0}

\* what a generate_pdf_report call did: it returned pdf_file after
\* doc.build(elements), or raised; with its locals as they were then
Did(outcome, value, pdf_file, pagesize, elements, summary_data, table_fields, table_data) ==
    [outcome |-> outcome, value |-> value, pdf_file |-> pdf_file,
     pagesize |-> pagesize, elements |-> elements, summary_data |-> summary_data,
     table_fields |-> table_fields, table_data |-> table_data]

generate_pdf_report(report_title, results, config, execution_date) ==
    LET date == IF Truthy(execution_date) THEN execution_date ELSE datetime(now)
        pdf_file == PdfFile(config, date)
    IN  IF results = <<>>
        THEN Did("return", pdf_file, pdf_file, "letter",
                 NoRecordsElements(report_title, date), None, None, None)
        ELSE
        LET report_fields == ReportFields(results, config)
            df == DataFrame(results)
            summary_data ==
                IF Truthy(config) /\ "summary_fields" \in DOMAIN config
                THEN SummaryData(df, config["summary_fields"])
                ELSE None
            table_fields == TableFields(report_fields, df)
            table_data == TableData(df, table_fields)
            elements == << TitleLine(report_title, date), Spacer(1, 12) >>
                        \o DescriptionSection(config)
                        \o SummarySection(df, config)
                        \o << Paragraph("Detailed Data", "Heading2") >>
        IN  IF Len(table_fields) = 0
            THEN \* 600 // len(table_fields)
                 Did("raise", "ZeroDivisionError", pdf_file, "landscape(letter)",
                     elements, summary_data, table_fields, table_data)
            ELSE Did("return", pdf_file, pdf_file, "landscape(letter)",
                     Append(elements,
                            Table(table_data, ColWidths(Len(table_fields)), 1,
                                  ShadedRows(table_data))),
                     summary_data, table_fields, table_data)

\* doc.build(elements) writes the document to the path given to
\* SimpleDocTemplate, replacing what was there
WriteFile(fs, path, document) ==
    [f \in DOMAIN fs \cup {path} |-> IF f = path THEN document ELSE fs[f]]

\* the arguments generate_pdf_report is called with
Titles == {"Daily Orders", "Returns"}

ExecutionDates == {None, datetime(1), datetime(86400)}

ResultSets ==
    { <<>>,
      << << <<"OrderId", Str("A1")>>, <<"OrderTotal", Num(250)>> >> >>,
      << << <<"OrderId", Str("A1")>>, <<"OrderTotal", Num(250)>> >>,
         << <<"Status", Str("Open")>>, <<"OrderId", Str("A2")>> >> >> }

SummaryField(field, operation, label) ==
    [field |-> field, operation |-> operation, label |-> label]

ReportConfigs ==
    { None,
      [report_id |-> "daily", description |-> "Orders of the day",
       report_fields |-> <<"OrderTotal", "Carrier", "OrderId">>,
       summary_fields |-> << SummaryField("OrderTotal", "sum", "Total value"),
                             SummaryField("OrderTotal", "median", "Median value"),
                             SummaryField("OrderId", "avg", "Average id"),
                             SummaryField("Carrier", "max", "Last carrier"),
                             SummaryField("Status", "group", "By status"),
                             SummaryField("OrderId", "count", "Orders") >>],
      [report_id |-> "daily", summary_fields |-> <<>>],
      [report_fields |-> <<"OrderId">>,
       summary_fields |-> << SummaryField("OrderId", "median", "Median id") >>],
      [report_fields |-> <<"Carrier">>,
       summary_fields |-> << SummaryField("OrderTotal", "mean", "Mean value") >>],
      [report_id |-> "daily", report_fields |-> <<>>] }

GeneratePdfReport ==
    /\ renders < MaxRenders
    /\ \E report_title \in Titles, results \in ResultSets,
          config \in ReportConfigs, execution_date \in ExecutionDates :
           \E did \in {generate_pdf_report(report_title, results, config,
                                            execution_date)} :
               /\ rendered' = [report_title |-> report_title, results |-> results,
                               report_config |-> config,
                               execution_date |-> execution_date, at |-> now,
                               existed |-> did.pdf_file \in DOMAIN files,
                               did |-> did]
               /\ files' = IF did.outcome = "return"
                           THEN WriteFile(files, did.pdf_file,
                                          [pagesize |-> did.pagesize,
                                           elements |-> did.elements])
                           ELSE files
    /\ renders' = renders + 1
    /\ UNCHANGED <<now, api_token, api_token_expiry, issued, pc, op, token,
                   token_expiry, new_token, expiry_time, response, headers, page,
                   all_results, result, entry, authCalls, granted, reqs, served,
                   report_config, payload, orders>>

\* ------------------------------------------------------ specifications
TokenStep(p) ==
    \/ CallGetToken(p)
    \/ GetTokenVar(p)
    \/ GetExpiryVar(p)
    \/ UseExistingToken(p)
    \/ PostAuth(p)
    \/ AuthOk(p)
    \/ AuthRejected(p)
    \/ AuthTransportError(p)
    \/ AcceptToken(p)
    \/ AuthFailed(p)
    \/ SetTokenVar(p)
    \/ SetExpiryVar(p)

QueryStep(p) ==
    \/ CallQuery(p)
    \/ SendSearch(p)
    \/ SearchOk(p)
    \/ SearchRejected(p)
    \/ SearchTransportError(p)
    \/ SearchFailed(p)
    \/ NoMoreResults(p)
    \/ LastPage(p)
    \/ NextPage(p)

\* one execution making calls one after another
Next == Tick \/ TokenStep("e1") \/ QueryStep("e1")

Spec == Init /\ [][Next]_vars

\* concurrent executions of get_api_auth_token, interleaved freely
NextConc == Tick \/ \E p \in Procs : TokenStep(p)

SpecConc == Init /\ [][NextConc]_vars

\* the steps of a call in progress
PagedStep(p) ==
    \/ GetTokenVar(p)
    \/ GetExpiryVar(p)
    \/ UseExistingToken(p)
    \/ PostAuth(p)
    \/ AuthOk(p)
    \/ AcceptToken(p)
    \/ SetTokenVar(p)
    \/ SetExpiryVar(p)
    \/ SendSearch(p)
    \/ SearchOkPaged(p)
    \/ NoMoreResults(p)
    \/ LastPage(p)
    \/ NextPage(p)

\* one execution making queries against a search endpoint with a fixed
\* list, both endpoints answering 200; a call in progress keeps running
NextPaged == CallQuery("e1") \/ PagedStep("e1")

SpecPaged == InitPaged /\ [][NextPaged]_vars /\ WF_vars(PagedStep("e1"))

\* calls of generate_pdf_report, one after another
NextRender == GeneratePdfReport

SpecRender == Init /\ [][NextRender]_vars

\* ------------------------------------------------------------ claims
\* the call of execution p has ended (returned or raised)
Finished(p) == pc[p] = "idle" /\ result[p].kind # "none"

\* the persisted Credential held a token and an expiry later than the clock
\* when the call of execution p started
EntryValid(p) ==
    /\ entry[p].api_token # None
    /\ entry[p].api_token_expiry # None
    /\ entry[p].at < entry[p].api_token_expiry[2]

\* C1 (token reuse): a get_api_auth_token call that starts while the
\* persisted Credential has a token and an expiry with now < expiry sends no
\* request to the auth endpoint, leaves api_token and api_token_expiry as
\* they were, and returns exactly the persisted token; a query started then
\* uses that token as its bearer.
C1_TokenReuse ==
    \A p \in Procs :
        (op[p] # "none" /\ EntryValid(p)) =>
            /\ authCalls[p] = 0
            /\ pc[p] # "idle" =>
                   /\ api_token = entry[p].api_token
                   /\ api_token_expiry = entry[p].api_token_expiry
            /\ pc[p] \in {"search_send", "search_wait", "search_response"} =>
                   headers[p] = entry[p].api_token
            /\ (Finished(p) /\ op[p] = "get_api_auth_token") =>
                   /\ result[p].kind = "token"
                   /\ result[p].value = entry[p].api_token
                   /\ result[p].api_token = entry[p].api_token
                   /\ result[p].api_token_expiry = entry[p].api_token_expiry

\* a get_api_auth_token call has returned the cached token of a Credential
\* that an earlier call had persisted
C1_Witness ==
    \E p \in Procs :
        /\ Finished(p)
        /\ op[p] = "get_api_auth_token"
        /\ EntryValid(p)
        /\ result[p].kind = "token"
        /\ result[p].value = entry[p].api_token
        /\ authCalls[p] = 0

\* C2 (token refresh): a get_api_auth_token call that starts with the
\* persisted Credential absent or expired and is answered 200 has sent
\* exactly one auth request, returns the access_token of the answer, and
\* leaves api_token = that access_token and api_token_expiry = the clock
\* read by the call + expires_in (3600 when the answer has no expires_in),
\* in place of the prior value; and a call that returns a token although the
\* Credential was absent or expired has been answered 200.
C2_TokenRefresh ==
    \A p \in Procs :
        (Finished(p) /\ op[p] = "get_api_auth_token" /\ ~EntryValid(p)) =>
            /\ result[p].kind = "token" => granted[p] # None
            /\ granted[p] # None =>
                   /\ result[p].kind = "token"
                   /\ authCalls[p] = 1
                   /\ result[p].value = granted[p].access_token
                   /\ result[p].api_token = granted[p].access_token
                   /\ result[p].api_token_expiry =
                          isoformat(result[p].at +
                                    (IF "expires_in" \in DOMAIN granted[p]
                                     THEN granted[p].expires_in ELSE 3600))
                   /\ result[p].api_token # entry[p].api_token

\* an expired Credential has been replaced by a refresh whose answer carried
\* an expires_in
C2_Witness ==
    \E p \in Procs :
        /\ Finished(p)
        /\ op[p] = "get_api_auth_token"
        /\ entry[p].api_token # None
        /\ ~EntryValid(p)
        /\ result[p].kind = "token"
        /\ granted[p] # None
        /\ "expires_in" \in DOMAIN granted[p]

\* C3 (authentication failure): when the answer to the auth request is not
\* a 200 (another status, or the transport failed), the call ends there in
\* an error handed to the caller, having sent exactly one auth request and
\* with api_token and api_token_expiry as they were when the call started.
C3_AuthFailure ==
    [][\A p \in Procs :
         (pc[p] = "auth_response" /\ ~Is200(response[p]) /\ pc'[p] # pc[p]) =>
             /\ pc'[p] = "idle"
             /\ result'[p].kind = "error"
             /\ authCalls'[p] = 1
             /\ api_token' = entry[p].api_token
             /\ api_token_expiry' = entry[p].api_token_expiry
             /\ result'[p].api_token = entry[p].api_token
             /\ result'[p].api_token_expiry = entry[p].api_token_expiry]_vars

\* a refresh of an expired Credential has failed and the expired Credential
\* is still the persisted one
C3_Witness ==
    \E p \in Procs :
        /\ Finished(p)
        /\ result[p].kind = "error"
        /\ result[p].value = "Authentication failed"
        /\ entry[p].api_token # None
        /\ api_token = entry[p].api_token
        /\ authCalls[p] = 1

\* C4 (concurrent token access is harmless): in every interleaving of
\* get_api_auth_token invocations sharing the Variables, every token an
\* invocation returns is still valid when it is returned: the expiry issued
\* with that token is later than the clock at the return.
C4_ReturnedTokenValid ==
    \A p \in Procs :
        (Finished(p) /\ result[p].kind = "token") =>
            result[p].at < result[p].value.exp

\* the data list of a 200 body (no list when the field is missing)
DataOf(body) == IF "data" \in DOMAIN body THEN body.data ELSE <<>>

\* the records of a sequence of 200 bodies, page after page
RECURSIVE RecordsOf(_)
RecordsOf(bodies) ==
    IF bodies = <<>> THEN <<>>
    ELSE RecordsOf(SubSeq(bodies, 1, Len(bodies) - 1)) \o DataOf(bodies[Len(bodies)])

Front(q) == SubSeq(q, 1, Len(q) - 1)
Last(q) == q[Len(q)]

\* the search requests sent so far are those for pages 0..n-1, in that order
RequestedPages(p, n) ==
    /\ Len(reqs[p]) = n
    /\ \A i \in 1..n : reqs[p][i].Page = i - 1

\* the query of execution p has returned exactly `records`, having
\* requested pages 0..n-1 and no other
ReturnedAfter(p, records, n) ==
    /\ Finished(p)
    /\ result[p].kind = "results"
    /\ result[p].value = records
    /\ RequestedPages(p, n)

\* C5 (empty page): once the 200 answer for page k has an empty or missing
\* data list, the query has ended without a request for page k+1 and has
\* returned exactly the records of pages 0..k-1 in page order (the empty
\* list when k = 0).
C5_EmptyPageStops ==
    \A p \in Procs :
        (served[p] # <<>> /\ DataOf(Last(served[p])) = <<>>) =>
            ReturnedAfter(p, RecordsOf(Front(served[p])), Len(served[p]))

\* page 2 came back empty and the query returned the 200 records of pages
\* 0 and 1
C5_Witness ==
    \E p \in Procs :
        /\ Len(served[p]) = 3
        /\ DataOf(Last(served[p])) = <<>>
        /\ Finished(p)
        /\ Len(result[p].value) = 2 * Size

\* C6 (short page): once a 200 answer holds a non-empty page of fewer than
\* Size = 100 records, the page has been appended and is the last one
\* requested: the query has returned the records of all pages received,
\* also when their number is below the totalCount of that answer.
C6_ShortPageStops ==
    \A p \in Procs :
        (/\ served[p] # <<>>
         /\ DataOf(Last(served[p])) # <<>>
         /\ Len(DataOf(Last(served[p]))) < 100) =>
            ReturnedAfter(p, RecordsOf(served[p]), Len(served[p]))

\* a short page 1 ended the query below the totalCount the answer reported
C6_Witness ==
    \E p \in Procs :
        /\ Len(served[p]) = 2
        /\ Len(DataOf(Last(served[p]))) = Size - 1
        /\ "totalCount" \in DOMAIN Last(served[p])
        /\ Finished(p)
        /\ result[p].kind = "results"
        /\ Len(result[p].value) < Last(served[p]).totalCount

\* C7 (count reached): once a non-empty page has been appended and the
\* number of records accumulated is >= the totalCount of that page's answer,
\* no further page is requested, also when the page was full-size: the query
\* has returned the records of all pages received (possibly more than
\* totalCount).
C7_CountReachedStops ==
    \A p \in Procs :
        (/\ served[p] # <<>>
         /\ DataOf(Last(served[p])) # <<>>
         /\ "totalCount" \in DOMAIN Last(served[p])
         /\ Len(RecordsOf(served[p])) >= Last(served[p]).totalCount) =>
            ReturnedAfter(p, RecordsOf(served[p]), Len(served[p]))

\* a full-size page 1 reached the count and the query returned more records
\* than totalCount
C7_Witness ==
    \E p \in Procs :
        /\ Len(served[p]) = 2
        /\ Len(DataOf(Last(served[p]))) = Size
        /\ "totalCount" \in DOMAIN Last(served[p])
        /\ Finished(p)
        /\ result[p].kind = "results"
        /\ Len(result[p].value) > Last(served[p]).totalCount

\* C8 (missing totalCount): after a full-size (100-record) page whose answer
\* carries no totalCount the loop goes on: the next page is about to be
\* requested or has been requested.
C8_MissingTotalCountContinues ==
    \A p \in Procs :
        \A i \in 1..Len(served[p]) :
            (/\ "totalCount" \notin DOMAIN served[p][i]
             /\ Len(DataOf(served[p][i])) = 100) =>
                \/ Len(reqs[p]) > i
                \/ pc[p] = "search_send"

\* C9 (search failure is all-or-nothing): when the answer to the search
\* request for a page is not a 200 (another status, or the transport
\* failed), the query ends there in an error: no ResultSet is returned, and
\* no further search request is sent.
C9_SearchFailureAllOrNothing ==
    [][\A p \in Procs :
         (pc[p] = "search_response" /\ ~Is200(response[p]) /\ pc'[p] # pc[p]) =>
             /\ pc'[p] = "idle"
             /\ result'[p].kind = "error"
             /\ result'[p].value = "API returned error"
             /\ reqs'[p] = reqs[p]
             /\ Len(reqs[p]) = Len(served[p]) + 1]_vars

\* the request for page 2 failed after two pages had been accumulated, and
\* the query ended in the error
C9_Witness ==
    \E p \in Procs :
        /\ Finished(p)
        /\ op[p] = "query_order_api"
        /\ result[p].kind = "error"
        /\ result[p].value = "API returned error"
        /\ Len(served[p]) = 2
        /\ Len(reqs[p]) = 3

\* C10 (current token on every page): every search request is sent with the
\* token of the persisted Credential, valid at the time the request is sent.
C10_BearerIsCurrentToken ==
    [][\A p \in Procs :
         (pc[p] = "search_send" /\ pc'[p] = "search_wait") =>
             /\ Last(reqs'[p]).Authorization = api_token
             /\ api_token_expiry # None
             /\ now < api_token_expiry[2]]_vars

\* C19 (the persisted Credential stays a matched pair): whenever no
\* get_api_auth_token invocation is in progress, the Variables are both
\* unset, or api_token_expiry is the expiry that the refresh which obtained
\* api_token computed for it.
C19_CredentialMatchedPair ==
    (\A p \in Procs : pc[p] = "idle") =>
        \/ api_token = None /\ api_token_expiry = None
        \/ /\ api_token # None
           /\ api_token_expiry = isoformat(api_token.exp)

\* the places of a query at which it is inside get_api_auth_token, and
\* those of its pagination loop
TokenPhase == {"get_token", "get_expiry", "check", "auth_wait", "auth_response",
               "set_token", "set_expiry"}
SearchPhase == {"search_send", "search_wait", "search_response"}

\* C20 (authentication precedes search): a query_order_api invocation is
\* inside get_api_auth_token only before its first search request, so it
\* sends at most one auth request however many pages it fetches, and all its
\* search requests carry the one token that call returned; if the token
\* acquisition fails the query ends in the authentication error without
\* having sent any search request.
C20_AuthPrecedesSearch ==
    \A p \in Procs :
        op[p] = "query_order_api" =>
            /\ authCalls[p] <= 1
            /\ pc[p] \in TokenPhase => reqs[p] = <<>> /\ served[p] = <<>>
            /\ pc[p] \in SearchPhase => headers[p] # None
            /\ \A i \in 1..Len(reqs[p]) :
                   reqs[p][i].Authorization = reqs[p][1].Authorization
            /\ (authCalls[p] = 1 /\ reqs[p] # <<>>) =>
                   reqs[p][1].Authorization = granted[p].access_token
            /\ (Finished(p) /\ result[p].kind = "error"
                   /\ result[p].value = "Authentication failed") =>
                   reqs[p] = <<>>
            /\ (Finished(p) /\ granted[p] = None /\ authCalls[p] = 1) =>
                   /\ result[p].kind = "error"
                   /\ result[p].value = "Authentication failed"

\* a query that refreshed the token once has sent three page requests
C20_Witness ==
    \E p \in Procs :
        /\ op[p] = "query_order_api"
        /\ authCalls[p] = 1
        /\ Len(reqs[p]) = 3

\* the records 1..n in server order
Records(n) == [i \in 1..n |-> i]

\* what a query that is under way has accumulated is the records of the
\* pages fetched so far, and there is data left for the page it is at
C15_Accumulating ==
    \A p \in Procs :
        pc[p] \in SearchPhase =>
            /\ all_results[p] = Records(page[p] * Size)
            /\ page[p] * Size <= orders

\* C15 (complete accumulation): against a search endpoint that holds the
\* records 1..N, serves page p as the records 100p+1..100p+100 that exist
\* and reports totalCount = N, every query_order_api invocation terminates,
\* and what it returns is exactly the records 1..N, each once, in server
\* order, for every N in 0..MaxOrders (0, 100, 200 and 300 included).
C15_CompleteAccumulation ==
    /\ [](\A p \in Procs :
            /\ Finished(p) => /\ result[p].kind = "results"
                              /\ result[p].value = Records(orders)
            /\ C15_Accumulating)
    /\ \A p \in Procs : (pc[p] # "idle") ~> Finished(p)

\* against an endpoint holding 200 records a query has returned them all
\* after requesting the two full pages and no third
C15_Witness ==
    \E p \in Procs :
        /\ Finished(p)
        /\ orders = 2 * Size
        /\ result[p].value = Records(2 * Size)
        /\ Len(reqs[p]) = 2

\* what ends the pagination, on the 200 bodies received so far: the last of
\* them has no data, or fewer than Size records, or the records received
\* have reached its totalCount (a body without totalCount counts as 0)
TerminationMet(bodies) ==
    LET body == bodies[Len(bodies)]
    IN  \/ DataOf(body) = <<>>
        \/ Len(DataOf(body)) < Size
        \/ "totalCount" \notin DOMAIN body
        \/ /\ "totalCount" \in DOMAIN body
           /\ Len(RecordsOf(bodies)) >= body.totalCount

\* C16 (no page is fetched twice): the search requests of one
\* query_order_api invocation are for pages 0, 1, 2, ... in that order, each
\* once; every request carries the payload of the first with only Page
\* changed; and once a 200 body has met a termination condition no further
\* request is sent.
C16_NoPageTwice ==
    \A p \in Procs :
        op[p] = "query_order_api" =>
            /\ \A i \in 1..Len(reqs[p]) :
                   /\ reqs[p][i].Page = i - 1
                   /\ reqs[p][i].json = [reqs[p][1].json EXCEPT !.Page = i - 1]
            /\ \A i \in 1..Len(served[p]) :
                   TerminationMet(SubSeq(served[p], 1, i)) => Len(reqs[p]) <= i
            /\ Len(reqs[p]) <= Len(served[p]) + 1

\* a query with a configured payload has sent requests for three pages
C16_Witness ==
    \E p \in Procs :
        /\ op[p] = "query_order_api"
        /\ Len(reqs[p]) = 3
        /\ reqs[p][3].json.ViewName = "orderlines"
        /\ reqs[p][3].Page = 2

\* ------------------------------------------- claims: generate_pdf_report
\* the calendar day a generate_pdf_report call r renders for
DayOf(r) ==
    IF r.execution_date = None THEN r.at \div 86400 ELSE r.execution_date[2] \div 86400

\* the report_id of a configuration, "report" when it has none
IdOf(config) ==
    IF config # None /\ "report_id" \in DOMAIN config THEN config.report_id ELSE "report"

\* /tmp/<report_id>_<YYYYMMDD>.pdf
PathFor(id, day) == <<"/tmp/", id, "_", <<"%Y%m%d", day>>, ".pdf">>

ParagraphsOf(elements) == SelectSeq(elements, LAMBDA e : e.kind = "Paragraph")

HasHeading(elements, text) ==
    \E i \in 1..Len(elements) :
        /\ elements[i].kind = "Paragraph"
        /\ elements[i].style = "Heading2"
        /\ elements[i].text = text

\* C11 (empty-result rendering): a generate_pdf_report call with an empty
\* result list returns, whatever the configuration; the paragraphs of the
\* document it built are exactly the title line "<title> - <date>" and the
\* "No records found" notice, there is no table and no image in it (so no
\* description, Summary, chart or Detailed Data); the document is at the
\* returned path, and that path is the one every render of a non-empty
\* result list for the same title, configuration and date returns.
C11_EmptyResultRendering ==
    (rendered # None /\ rendered.results = <<>>) =>
        LET did == rendered.did
        IN  /\ did.outcome = "return"
            /\ ParagraphsOf(did.elements) =
                   << [kind |-> "Paragraph", style |-> "Title",
                       text |-> <<rendered.report_title, " - ",
                                  <<"%Y-%m-%d", DayOf(rendered)>> >>],
                      [kind |-> "Paragraph", style |-> "Normal",
                       text |-> "No records found for the specified period."] >>
            /\ \A i \in 1..Len(did.elements) :
                   did.elements[i].kind \in {"Paragraph", "Spacer"}
            /\ did.value \in DOMAIN files
            /\ files[did.value].elements = did.elements
            /\ \A results \in ResultSets :
                   LET other == generate_pdf_report(rendered.report_title, results,
                                                    rendered.report_config,
                                                    rendered.execution_date)
                   IN  other.outcome = "return" => other.value = did.value

\* an empty result list was rendered under a configuration that has a
\* description and summary fields
C11_Witness ==
    /\ rendered # None
    /\ rendered.results = <<>>
    /\ rendered.report_config # None
    /\ {"description", "summary_fields"} \subseteq DOMAIN rendered.report_config
    /\ rendered.did.outcome = "return"
    /\ Len(rendered.did.elements) = 3

KnownOperations == {"sum", "avg", "mean", "count", "min", "max", "group"}

\* the configured summary fields of a configuration, none without the key
SummaryFieldsOf(config) ==
    IF config # None /\ "summary_fields" \in DOMAIN config
    THEN config.summary_fields
    ELSE <<>>

\* the last element of the document is the Detailed Data table, under its heading
EndsWithDetailedData(did) ==
    /\ HasHeading(did.elements, "Detailed Data")
    /\ did.elements[Len(did.elements)].kind = "Table"
    /\ did.elements[Len(did.elements)].data = did.table_data

C14_DetailedDataColumns ==
    (rendered # None /\ rendered.results # <<>>) =>
        LET did == rendered.did
            config == rendered.report_config
            results == rendered.results
            InData(field) == \E i \in 1..Len(results) : HasKey(results[i], field)
            header == did.table_data[1]
        IN  /\ header = IF config # None /\ "report_fields" \in DOMAIN config
                        THEN SelectSeq(config.report_fields, InData)
                        ELSE [i \in 1..Len(results[1]) |-> results[1][i][1]]
            /\ Len(did.table_data) = Len(results) + 1
            /\ \A i \in 1..Len(did.table_data) : Len(did.table_data[i]) = Len(header)
            /\ did.outcome = "return" => EndsWithDetailedData(did)

\* a render whose configured fields are in another order than the columns
\* of the data, one of them absent from the data, has built its table; and
\* so has one without configured fields
C14_Witness ==
    /\ rendered # None
    /\ Len(rendered.results) = 2
    /\ rendered.did.outcome = "return"
    /\ rendered.report_config # None
    /\ "report_fields" \in DOMAIN rendered.report_config
    /\ rendered.report_config.report_fields = <<"OrderTotal", "Carrier", "OrderId">>
    /\ rendered.did.table_data[1] = <<"OrderTotal", "OrderId">>
    /\ Len(rendered.did.table_data) = 3

\* C17 (the Summary section is conditional): in the document built for a
\* non-empty result list the "Summary" heading is present if and only if
\* the configured summary_fields is a non-empty list, and the heading is
\* followed by the two-column summary table if and only if at least one
\* summary row was produced.
C17_SummaryConditional ==
    ( /\ rendered # None
      /\ rendered.results # <<>>
      /\ rendered.did.outcome = "return" )
    => LET did == rendered.did
           elements == did.elements
       IN  /\ HasHeading(elements, "Summary")
                  <=> SummaryFieldsOf(rendered.report_config) # <<>>
           /\ (\E i \in 1..(Len(elements) - 1) :
                   /\ elements[i].kind = "Paragraph"
                   /\ elements[i].style = "Heading2"
                   /\ elements[i].text = "Summary"
                   /\ elements[i + 1].kind = "Table"
                   /\ Len(elements[i + 1].colWidths) = 2
                   /\ elements[i + 1].data = did.summary_data)
                  <=> (did.summary_data # None /\ did.summary_data # <<>>)

\* C18 (rendering a non-empty result list always completes): every
\* generate_pdf_report call with a non-empty result list returns its path,
\* having written the document there, whose Detailed Data table has n
\* columns each of width max(100, min(200, 600 div n)), also when n = 0.
C18_RenderingCompletes ==
    (rendered # None /\ rendered.results # <<>>) =>
        LET did == rendered.did
            n == Len(did.table_fields)
        IN  /\ did.outcome = "return"
            /\ did.value = did.pdf_file
            /\ did.value \in DOMAIN files
            /\ files[did.value].elements = did.elements
            /\ EndsWithDetailedData(did)
            /\ did.elements[Len(did.elements)].colWidths =
                   [j \in 1..n |-> IF 600 \div n < 100 THEN 100
                                   ELSE IF 600 \div n > 200 THEN 200
                                   ELSE 600 \div n]

====
